---- MODULE Spec2Model ----
(***************************************************************************)
(* Model of MdapiPullApi (src/lib/source/sourcePullApi.ts): one doPull run *)
(* as a state machine whose steps are the awaits of doPull, _postRetrieve  *)
(* and _checkForConflicts, together with the remote repository changing    *)
(* under the pull.                                                         *)
(***************************************************************************)
EXTENDS Integers, Sequences, FiniteSets, TLC

\* Bounds of the model.
NumMembers == 2
NumPkgs == 2

Members == 1..NumMembers
PkgNames == 1..NumPkgs

\* Grouping policy of the partition: the package a member belongs to.
PkgOf(m) == ((m - 1) % NumPkgs) + 1

VARIABLES
  pc,            \* position of doPull
  options,       \* the options doPull was called with
  start,         \* checkpoint and workspace as they were when doPull was called
  remoteRev,     \* remote repository: revision counter of each member
  remoteGone,    \* remote repository: members deleted remotely
  remoteChanged, \* the remote repository changed during this pull
  checkpoint,    \* maxRevision: last revision recorded per member (0: untracked)
  seenRev,       \* remote revisions observed by the diff of getRevisionsAsPackage
  localRev,      \* workspace: remote revision whose content is on disk (0: none)
  obsoleteNames, \* this.obsoleteNames
  packages,      \* packages[p]: the members to retrieve of package p
  pkgIdx,        \* mapSeries: index of the package being processed
  activePackage, \* swa.packageInfoCache active package
  tmpDir,        \* tmpDir[p]: "none" | "exists" | "removed"
  rmCalls,       \* rmCalls[p]: cleanupOutputDir calls made for package p
  manifest,      \* manifest of the current package
  result,        \* retrieval result of the current package
  gateway,       \* gateway[p]: outcome of the gateway call of package p
  didSucceed,    \* _postRetrieve: value of _didRetrieveSucceed(result)
  applied,       \* applied[p]: _syncDownSource ran to completion for p
  tracked,       \* tracked[p]: the per-package tracking update ran for p
  removed,       \* removed[p]: obsolete names handed to handleObsoleteSource
  commits,       \* commits[p]: updateSource calls made for package p
  inboundFiles,  \* _postRetrieve: members of the changed source elements
  pending,       \* outcome of the package step, held while finally runs
  results,       \* outcomes delivered to mapSeries, in order
  pullError,     \* the error doPull rejected with
  statusCalls,   \* doStatus calls made
  statusReply,   \* conflicts returned by getLocalConflicts
  statusError,   \* errorCode of the failed status query
  rebuildCalls,  \* setMaxRevisionCounterFromQuery calls made
  returned,      \* the value doPull resolved with
  failed,        \* packages whose gateway call did not yield a succeeded result
  applyLog,      \* calls _syncDownSource made for the current package, in order
  hostSep,       \* path.sep of the host
  pullNo,        \* doPull calls made on this instance
  gpPc,          \* position of local.getPath
  gpCwd,         \* process.cwd()
  gpFile,        \* getPath: the file the traversal looks for
  gpDir,         \* traverseForFile: workingDir of the current call
  gpFound,       \* getPath: foundProjectDir
  gpFs,          \* file system: outcome of statSync per directory and file
  gpError        \* the error getPath threw

vars == << pc, options, start, remoteRev, remoteGone, remoteChanged, checkpoint,
           seenRev, localRev, obsoleteNames, packages, pkgIdx, activePackage,
           tmpDir, rmCalls, manifest, result, gateway, didSucceed, applied,
           tracked, removed, commits, inboundFiles, pending, results,
           pullError, statusCalls, statusReply, statusError, rebuildCalls,
           returned, failed, applyLog, hostSep, pullNo,
           gpPc, gpCwd, gpFile, gpDir, gpFound, gpFs, gpError >>

\* The state of local.getPath.
pathVars == << gpPc, gpCwd, gpFile, gpDir, gpFound, gpFs, gpError >>

\* ------------------------------------------------------------------ values

MemberSeq == [i \in 1..NumMembers |-> i]

\* The members of S in ascending order.
SeqOf(S) == SelectSeq(MemberSeq, LAMBDA m : m \in S)

Range(s) == { s[i] : i \in 1..Len(s) }

\* A RetrievalResult; nil is the undefined value.
Statuses == { "Succeeded", "Failed" }
MsgKinds == { "absent", "empty", "nonempty" }
FpKinds == { "absent", "notlist", "list" }

Undefined ==
  [ nil |-> TRUE, success |-> FALSE, status |-> "none", messages |-> "absent",
    fpKind |-> "absent", fileProperties |-> << >> ]

\* An error value: kind "Error" is an Error object, kind "string" a bare string.
NoError == [ kind |-> "none", name |-> "none", message |-> "none", conflicts |-> {} ]

MkError(name, message, conflicts) ==
  [ kind |-> "Error", name |-> name, message |-> message, conflicts |-> conflicts ]

\* The outcome of a package step.
NoOutcome == [ kind |-> "none", inboundFiles |-> {}, error |-> NoError ]
Returned(kind, files) == [ kind |-> kind, inboundFiles |-> files, error |-> NoError ]
Thrown(err) == [ kind |-> "throw", inboundFiles |-> {}, error |-> err ]

\* A manifest: the empty sentinel, or a file and the members it lists.
EmptyManifest == [ empty |-> TRUE, file |-> "none", members |-> {} ]

\* options.packageXml: nil, or a pre-built manifest file and what it lists.
NoPackageXml == [ nil |-> TRUE, members |-> {} ]
PackageXmlFile == [ nil |-> FALSE, members |-> { 1 } ]

Options ==
  [ forceoverwrite : BOOLEAN, debug : BOOLEAN,
    packageXml : { NoPackageXml, PackageXmlFile } ]

\* path.sep: "/" on POSIX hosts, "\\" on Windows hosts.
HostSeps == { "/", "\\" }

\* The value of a doPull call that has not resolved.
NotReturned == [ resolved |-> FALSE, results |-> << >> ]

\* A directory path is the sequence of its characters; Null is null.
Null == << >>

\* ------------------------------------------------------------------ Init

\* local.getPath has not been called.
PathIdle ==
  /\ gpPc = "idle"
  /\ gpCwd = Null
  /\ gpFile = "none"
  /\ gpDir = Null
  /\ gpFound = Null
  /\ gpFs = << >>
  /\ gpError = NoError

\* A constructed MdapiPullApi (lines 43-53) over a workspace and a remote
\* repository, on a POSIX host; the apply is run on both kinds of host under
\* SpecApply.
PullInit ==
  /\ pc = "idle"
  /\ options = [ forceoverwrite |-> FALSE, debug |-> FALSE,
                 packageXml |-> NoPackageXml ]
  /\ checkpoint \in [Members -> 0..1]
  /\ localRev = checkpoint
  /\ remoteRev \in [Members -> 0..2]
  /\ \A m \in Members : remoteRev[m] \in checkpoint[m]..(checkpoint[m] + 1)
  /\ remoteGone \in SUBSET { m \in Members : checkpoint[m] > 0 }
  /\ remoteChanged = FALSE
  /\ seenRev = [m \in Members |-> 0]
  /\ obsoleteNames = {}
  /\ packages = [p \in PkgNames |-> {}]
  /\ pkgIdx = 0
  /\ activePackage = 0
  /\ tmpDir = [p \in PkgNames |-> "none"]
  /\ rmCalls = [p \in PkgNames |-> 0]
  /\ manifest = EmptyManifest
  /\ result = Undefined
  /\ gateway = [p \in PkgNames |-> "none"]
  /\ didSucceed = FALSE
  /\ applied = [p \in PkgNames |-> FALSE]
  /\ tracked = [p \in PkgNames |-> FALSE]
  /\ removed = [p \in PkgNames |-> {}]
  /\ commits = [p \in PkgNames |-> 0]
  /\ inboundFiles = {}
  /\ pending = NoOutcome
  /\ results = << >>
  /\ pullError = NoError
  /\ statusCalls = 0
  /\ statusReply = {}
  /\ statusError = "none"
  /\ rebuildCalls = 0
  /\ returned = NotReturned
  /\ failed = {}
  /\ applyLog = << >>
  /\ hostSep = "/"
  /\ pullNo = 1
  /\ start = [ checkpoint |-> checkpoint, localRev |-> localRev ]

Init == PullInit /\ PathIdle

\* ------------------------------------------------------------------ doPull

\* doPull(options) is called.
doPull ==
  /\ pc = "idle"
  /\ options' \in Options
  /\ start' = [ checkpoint |-> checkpoint, localRev |-> localRev ]
  /\ pc' = "checkForConflicts"
  /\ UNCHANGED << hostSep, pullNo, pathVars, returned, failed, applyLog,
                  remoteRev, remoteGone, remoteChanged, checkpoint, seenRev,
                  localRev, obsoleteNames, packages, pkgIdx, activePackage,
                  tmpDir, rmCalls, manifest, result, gateway, didSucceed,
                  applied, tracked, removed, commits, inboundFiles, pending,
                  results, pullError, statusCalls, statusReply, statusError,
                  rebuildCalls >>

\* ------------------------------------------------------ _checkForConflicts

ErrorCodes == { "INVALID_TYPE", "OTHER" }

\* The value thrown by the catch handler of the status query (lines 241-251):
\* the assignment expression (SfdxError.wrap(err).message = errorMessage)
\* has the value errorMessage, so a bare string is thrown.
StatusQueryThrown(errorCode, message) ==
  LET errorMessage == IF errorCode = "INVALID_TYPE" THEN "NonScratchOrgPull"
                                                     ELSE message
  IN  [ kind |-> "string", name |-> "undefined", message |-> errorMessage,
        conflicts |-> {} ]

\* The error thrown when getLocalConflicts returned conflicts (lines 253-258).
SourceConflictError(conflicts) ==
  MkError("SourceConflict", "Conflicts found during sync down", conflicts)

\* Variant of CheckForConflictsForce that consults the status service although
\* forceoverwrite is set.
CheckForConflictsForce_ChecksStatus ==
  /\ pc = "checkForConflicts"
  /\ options.forceoverwrite
  /\ \E conflicts \in SUBSET Members :
       /\ statusCalls' = statusCalls + 1
       /\ statusReply' = conflicts
       /\ IF conflicts # {}
            THEN /\ pullError' = SourceConflictError(conflicts)
                 /\ pc' = "error"
            ELSE /\ pullError' = pullError
                 /\ pc' = "getRevisionsAsPackage"
  /\ UNCHANGED statusError

\* options.forceoverwrite: return [] without creating the status api.
CheckForConflictsForce ==
  /\ pc = "checkForConflicts"
  /\ options.forceoverwrite
  /\ pc' = "getRevisionsAsPackage"
  /\ UNCHANGED << pullError, statusCalls, statusReply, statusError >>

\* Variant of CheckForConflictsStatus that lets the pull go on when conflicts
\* were returned.
CheckForConflictsStatus_IgnoresConflicts ==
  /\ pc = "checkForConflicts"
  /\ ~options.forceoverwrite
  /\ \E conflicts \in SUBSET Members :
       /\ statusCalls' = statusCalls + 1
       /\ statusReply' = conflicts
  /\ pc' = "getRevisionsAsPackage"
  /\ UNCHANGED << pullError, statusError >>

\* doStatus and getLocalConflicts succeed and return the conflicts.
CheckForConflictsStatus ==
  /\ pc = "checkForConflicts"
  /\ ~options.forceoverwrite
  /\ \E conflicts \in SUBSET Members :
       /\ statusCalls' = statusCalls + 1
       /\ statusReply' = conflicts
       /\ IF conflicts # {}
            THEN /\ pullError' = SourceConflictError(conflicts)
                 /\ pc' = "error"
            ELSE /\ pullError' = pullError
                 /\ pc' = "getRevisionsAsPackage"
  /\ UNCHANGED statusError

\* doStatus rejects: the catch handler throws.
CheckForConflictsFail ==
  /\ pc = "checkForConflicts"
  /\ ~options.forceoverwrite
  /\ \E code \in ErrorCodes :
       /\ statusCalls' = statusCalls + 1
       /\ statusError' = code
       /\ pullError' = StatusQueryThrown(code, "statusFailed")
       /\ pc' = "error"
  /\ UNCHANGED statusReply

_checkForConflicts ==
  /\ \/ CheckForConflictsForce
     \/ CheckForConflictsStatus
     \/ CheckForConflictsFail
  /\ UNCHANGED << hostSep, pullNo, pathVars, returned, failed, applyLog,
                  options, start, remoteRev, remoteGone, remoteChanged, checkpoint,
                  seenRev, localRev, obsoleteNames, packages, pkgIdx,
                  activePackage, tmpDir, rmCalls, manifest, result, gateway,
                  didSucceed, applied, tracked, removed, commits, inboundFiles,
                  pending, results, rebuildCalls >>

\* ----------------------------------------------------- partition and loop

\* The diff of the revision store: members whose remote revision is above
\* the checkpoint, and tracked members that are gone remotely.
ToRetrieve == { m \in Members : m \notin remoteGone /\ remoteRev[m] > checkpoint[m] }
Obsolete == { m \in Members : m \in remoteGone /\ checkpoint[m] > 0 }

\* smmHelper.getRevisionsAsPackage(this.obsoleteNames) (line 77): one package
\* per name, each with its retrieval set; obsolete names are pushed onto
\* this.obsoleteNames.
getRevisionsAsPackage ==
  /\ pc = "getRevisionsAsPackage"
  /\ packages' = [p \in PkgNames |-> { m \in ToRetrieve : PkgOf(m) = p }]
  /\ obsoleteNames' = obsoleteNames \cup Obsolete
  /\ seenRev' = remoteRev
  /\ pkgIdx' = 0
  /\ pc' = "mapSeries"
  /\ UNCHANGED << hostSep, pullNo, pathVars, returned, failed, applyLog,
                  options, start, remoteRev, remoteGone, remoteChanged, checkpoint,
                  localRev, activePackage, tmpDir, rmCalls, manifest, result,
                  gateway, didSucceed, applied, tracked, removed, commits,
                  inboundFiles, pending, results, pullError, statusCalls,
                  statusReply, statusError, rebuildCalls >>

\* Variant of mapSeriesNext that starts the iterator on the next package
\* without setting the active package.
mapSeriesNext_NoActivePackage ==
  /\ pc = "mapSeries"
  /\ IF pkgIdx < NumPkgs
       THEN /\ pkgIdx' = pkgIdx + 1
            /\ activePackage' = activePackage
            /\ pc' = "createOutputDir"
       ELSE /\ pc' = "setMaxRevisionCounterFromQuery"
            /\ UNCHANGED << pkgIdx, activePackage >>
  /\ UNCHANGED << hostSep, pullNo, pathVars, returned, failed, applyLog,
                  options, start, remoteRev, remoteGone, remoteChanged,
                  checkpoint, seenRev, localRev, obsoleteNames, packages,
                  tmpDir, rmCalls, manifest, result, gateway, didSucceed,
                  applied, tracked, removed, commits, inboundFiles, pending,
                  results, pullError, statusCalls, statusReply, statusError,
                  rebuildCalls >>

\* Variant of mapSeriesNext that returns the results without the rebuild of
\* the checkpoint.
mapSeriesNext_NoRebuild ==
  /\ pc = "mapSeries"
  /\ IF pkgIdx < NumPkgs
       THEN /\ pkgIdx' = pkgIdx + 1
            /\ activePackage' = pkgIdx + 1
            /\ pc' = "createOutputDir"
       ELSE /\ pc' = "done"
            /\ UNCHANGED << pkgIdx, activePackage >>
  /\ UNCHANGED << hostSep, pullNo, pathVars, returned, failed, applyLog,
                  options, start, remoteRev, remoteGone, remoteChanged,
                  checkpoint, seenRev, localRev, obsoleteNames, packages,
                  tmpDir, rmCalls, manifest, result, gateway, didSucceed,
                  applied, tracked, removed, commits, inboundFiles, pending,
                  results, pullError, statusCalls, statusReply, statusError,
                  rebuildCalls >>

\* BBPromise.mapSeries (line 78): start the iterator on the next package, or
\* resolve with the results when every package is done.
mapSeriesNext ==
  /\ pc = "mapSeries"
  /\ IF pkgIdx < NumPkgs
       THEN /\ pkgIdx' = pkgIdx + 1
            /\ activePackage' = pkgIdx + 1
            /\ pc' = "createOutputDir"
       ELSE /\ pc' = "setMaxRevisionCounterFromQuery"
            /\ UNCHANGED << pkgIdx, activePackage >>
  /\ UNCHANGED << hostSep, pullNo, pathVars, returned, failed, applyLog,
                  options, start, remoteRev, remoteGone, remoteChanged, checkpoint,
                  seenRev, localRev, obsoleteNames, packages, tmpDir, rmCalls,
                  manifest, result, gateway, didSucceed, applied, tracked,
                  removed, commits, inboundFiles, pending, results, pullError,
                  statusCalls, statusReply, statusError, rebuildCalls >>

\* SourceUtil.createOutputDir('pull') (line 85).
createOutputDir ==
  /\ pc = "createOutputDir"
  /\ tmpDir' = [tmpDir EXCEPT ![pkgIdx] = "exists"]
  /\ pc' = "createPackageManifest"
  /\ UNCHANGED << hostSep, pullNo, pathVars, returned, failed, applyLog,
                  options, start, remoteRev, remoteGone, remoteChanged, checkpoint,
                  seenRev, localRev, obsoleteNames, packages, pkgIdx,
                  activePackage, rmCalls, manifest, result, gateway,
                  didSucceed, applied, tracked, removed, commits, inboundFiles,
                  pending, results, pullError, statusCalls, statusReply,
                  statusError, rebuildCalls >>

\* --------------------------------------------------- manifest and retrieve

\* Variant of _createPackageManifest that uses options.packageXml whenever
\* it is supplied, with or without options.debug.
_createPackageManifest_IgnoresDebug(opts, pkg) ==
  IF pkg = {}
    THEN EmptyManifest
    ELSE IF opts.packageXml.nil
           THEN [ empty |-> FALSE, file |-> "created", members |-> pkg ]
           ELSE [ empty |-> FALSE, file |-> "packageXml",
                  members |-> opts.packageXml.members ]

\* _createPackageManifest (lines 123-142).
_createPackageManifest(opts, pkg) ==
  IF pkg = {}
    THEN EmptyManifest
    ELSE IF opts.packageXml.nil \/ ~opts.debug
           THEN [ empty |-> FALSE, file |-> "created", members |-> pkg ]
           ELSE [ empty |-> FALSE, file |-> "packageXml",
                  members |-> opts.packageXml.members ]

\* The result synthesized for an empty manifest (line 96).
SynthesizedResult ==
  [ nil |-> FALSE, success |-> TRUE, status |-> "Succeeded",
    messages |-> "absent", fpKind |-> "list", fileProperties |-> << >> ]

\* Variant of EmptyManifestResult that synthesizes the result whether or not
\* there are obsolete names.
EmptyManifestResult_AlwaysSynthesized(obsolete) == SynthesizedResult

\* Variant of EmptyManifestResult that leaves the result undefined.
EmptyManifestResult_NeverSynthesized(obsolete) == Undefined

\* The result of an empty manifest (lines 94-97): synthesized when there are
\* obsolete names, left undefined otherwise.
EmptyManifestResult(obsolete) ==
  IF obsolete # {} THEN SynthesizedResult ELSE Undefined

\* Lines 91-98: build the manifest; an empty manifest skips the retrieval.
createPackageManifest ==
  /\ pc = "createPackageManifest"
  /\ LET m == _createPackageManifest(options, packages[pkgIdx])
     IN  /\ manifest' = m
         /\ IF m.empty
              THEN /\ result' = EmptyManifestResult(obsoleteNames)
                   /\ pc' = "postRetrieve"
              ELSE /\ result' = result
                   /\ pc' = "retrieve"
  /\ UNCHANGED << hostSep, pullNo, pathVars, returned, failed, applyLog,
                  options, start, remoteRev, remoteGone, remoteChanged, checkpoint,
                  seenRev, localRev, obsoleteNames, packages, pkgIdx,
                  activePackage, tmpDir, rmCalls, gateway, didSucceed,
                  applied, tracked, removed, commits, inboundFiles, pending,
                  results, pullError, statusCalls, statusReply, statusError,
                  rebuildCalls >>

\* The file properties the remote repository returns for the members of a
\* manifest: the manifest wrapper, then each member at its current revision.
\* A name is its segments and the separator between them: fullName is the
\* member the segments name, fullNameSep and fileNameSep are the separator
\* characters of fullName and fileName; the repository writes "/".
PackageFileProperty ==
  [ type |-> "Package", fullName |-> 0, rev |-> 0,
    fullNameSep |-> "/", fileNameSep |-> "/" ]

FileProperty(m, rev) ==
  [ type |-> "ApexClass", fullName |-> m, rev |-> rev,
    fullNameSep |-> "/", fileNameSep |-> "/" ]

RetrievedFiles(ms) ==
  LET s == SeqOf(ms \ remoteGone)
  IN  << PackageFileProperty >> \o
      [ i \in 1..Len(s) |-> FileProperty(s[i], remoteRev[s[i]]) ]

GatewayResult(success, status, messages, fpKind) ==
  [ nil |-> FALSE, success |-> success, status |-> status,
    messages |-> messages, fpKind |-> fpKind,
    fileProperties |-> IF fpKind = "list" THEN RetrievedFiles(manifest.members)
                                          ELSE << >> ]

\* Variant of _didRetrieveSucceed that also accepts an empty messages list.
_didRetrieveSucceed_EmptyMessages(r) ==
  /\ ~r.nil
  /\ r.success
  /\ r.status = "Succeeded"
  /\ r.messages \in { "absent", "empty" }
  /\ r.fpKind = "list"

\* _didRetrieveSucceed (lines 144-153); _.isNil(messages) is true for an
\* absent messages field only.
_didRetrieveSucceed(r) ==
  /\ ~r.nil
  /\ r.success
  /\ r.status = "Succeeded"
  /\ r.messages = "absent"
  /\ r.fpKind # "absent"
  /\ r.fpKind = "list"

\* MdRetrieveApi.retrieve resolves with a result (line 107).
RetrieveResolve ==
  /\ pc = "retrieve"
  /\ \E success \in BOOLEAN, status \in Statuses, messages \in MsgKinds,
        fpKind \in FpKinds :
       result' = GatewayResult(success, status, messages, fpKind)
  /\ gateway' = [gateway EXCEPT ![pkgIdx] = "resolved"]

\* MdRetrieveApi.retrieve rejects with a failed result attached to the
\* error: .catch(err => err.result) (line 107).
RetrieveRejectWithResult ==
  /\ pc = "retrieve"
  /\ \E status \in Statuses \ { "Succeeded" }, messages \in MsgKinds,
        fpKind \in FpKinds :
       result' = GatewayResult(FALSE, status, messages, fpKind)
  /\ gateway' = [gateway EXCEPT ![pkgIdx] = "rejected"]

\* MdRetrieveApi.retrieve rejects with an error that has no result:
\* err.result is undefined (line 107).
RetrieveRejectNoResult ==
  /\ pc = "retrieve"
  /\ result' = Undefined
  /\ gateway' = [gateway EXCEPT ![pkgIdx] = "rejectedNoResult"]

retrieve ==
  /\ \/ RetrieveResolve
     \/ RetrieveRejectWithResult
     \/ RetrieveRejectNoResult
  /\ failed' = IF gateway'[pkgIdx] = "resolved" /\ _didRetrieveSucceed(result')
                 THEN failed
                 ELSE failed \cup { pkgIdx }
  /\ pc' = "postRetrieve"
  /\ UNCHANGED << hostSep, pullNo, pathVars, returned, applyLog,
                  options, start, remoteRev, remoteGone, remoteChanged, checkpoint,
                  seenRev, localRev, obsoleteNames, packages, pkgIdx,
                  activePackage, tmpDir, rmCalls, manifest, didSucceed,
                  applied, tracked, removed, commits, inboundFiles, pending,
                  results, pullError, statusCalls, statusReply, statusError,
                  rebuildCalls >>

\* ------------------------------------------------------------ _postRetrieve

\* Variant of _processResults that returns undefined for a failed result.
_processResults_FailureIsUndefined(r, inbound) ==
  IF r.nil
    THEN Returned("undefined", {})
    ELSE IF _didRetrieveSucceed(r)
           THEN Returned("inboundFiles", inbound)
           ELSE Returned("undefined", {})

\* _processResults (lines 220-230).
_processResults(r, inbound) ==
  IF r.nil
    THEN Returned("undefined", {})
    ELSE IF _didRetrieveSucceed(r)
           THEN Returned("inboundFiles", inbound)
           ELSE Thrown(MkError("RetrieveFailed", "retrieveFailure", {}))

\* _postRetrieve when the retrieval did not succeed (lines 159, 177).
PostRetrieveFailed ==
  /\ ~_didRetrieveSucceed(result)
  /\ pending' = _processResults(result, {})
  /\ pc' = "cleanupOutputDir"

\* _postRetrieve when the retrieval succeeded: await _syncDownSource.
PostRetrieveSucceeded ==
  /\ _didRetrieveSucceed(result)
  /\ pending' = pending
  /\ pc' = "syncDownSource"

postRetrieve ==
  /\ pc = "postRetrieve"
  /\ didSucceed' = _didRetrieveSucceed(result)
  /\ \/ PostRetrieveFailed
     \/ PostRetrieveSucceeded
  /\ UNCHANGED << hostSep, pullNo, pathVars, returned, failed, applyLog,
                  options, start, remoteRev, remoteGone, remoteChanged, checkpoint,
                  seenRev, localRev, obsoleteNames, packages, pkgIdx,
                  activePackage, tmpDir, rmCalls, manifest, result, gateway,
                  applied, tracked, removed, commits, inboundFiles, results,
                  pullError, statusCalls, statusReply, statusError,
                  rebuildCalls >>

\* --------------------------------------------------------- _syncDownSource

\* The file properties handed to processMdapiFileProperty (lines 192-205).
Retained(fps) == SelectSeq(fps, LAMBDA fp : fp.type # "Package")

FullNames(fps) == { fps[i].fullName : i \in 1..Len(fps) }

RevOf(fps, m) == (CHOOSE i \in 1..Len(fps) : fps[i].fullName = m)

\* The workspace after updateSource persisted the aggregate: each retained
\* file property written, then each obsolete name removed (lines 192-217).
WrittenWorkspace(fps, obsolete) ==
  [ m \in Members |->
      IF m \in obsolete THEN 0
      ELSE IF m \in FullNames(fps) THEN fps[RevOf(fps, m)].rev
      ELSE localRev[m] ]

\* pathUtil.replaceForwardSlashes on the separator of a name: a forward
\* slash becomes path.sep.
replaceForwardSlashes(sep) == IF sep = "/" THEN hostSep ELSE sep

\* Lines 197-198: fullName and fileName of a file property are rewritten.
Normalized(fp) ==
  [ fp EXCEPT !.fullNameSep = replaceForwardSlashes(@),
              !.fileNameSep = replaceForwardSlashes(@) ]

\* A call _syncDownSource makes on the bundle type or the workspace store.
Call(op, fps, name, checkForDuplicates) ==
  [ op |-> op, fps |-> fps, name |-> name,
    checkForDuplicates |-> checkForDuplicates ]

\* Variant of ProcessCalls that hands every file property, the 'Package'
\* entries too, to processMdapiFileProperty.
ProcessCalls_KeepsPackage(fps) ==
  [ i \in 1..Len(fps) |->
      Call("processMdapiFileProperty", << Normalized(fps[i]) >>, 0, FALSE) ]

\* Lines 192-205: forEach over result.fileProperties; a 'Package' entry
\* returns early, every other one is normalized and handed to
\* processMdapiFileProperty.
ProcessCalls(fps) ==
  LET kept == SelectSeq(fps, LAMBDA fp : fp.type # "Package")
  IN  [ i \in 1..Len(kept) |->
          Call("processMdapiFileProperty", << Normalized(kept[i]) >>, 0, FALSE) ]

\* Lines 207-209: forEach over this.obsoleteNames.
ObsoleteCalls(obsolete) ==
  LET names == SeqOf(obsolete)
  IN  [ i \in 1..Len(names) |->
          Call("handleObsoleteSource", << >>, names[i], FALSE) ]

\* Variant of ApplyCalls that removes the obsolete names before it
\* processes the file properties.
ApplyCalls_ObsoleteFirst(fps, obsolete) ==
  << Call("getDefinitionProperties", fps, 0, FALSE) >>
    \o ObsoleteCalls(obsolete)
    \o ProcessCalls(fps)
    \o << Call("updateSource", << >>, 0, FALSE) >>

\* The calls of one _syncDownSource, in order (lines 187-217); updateSource
\* is called with false for its check-for-duplicates argument.
ApplyCalls(fps, obsolete) ==
  << Call("getDefinitionProperties", fps, 0, FALSE) >>
    \o ProcessCalls(fps)
    \o ObsoleteCalls(obsolete)
    \o << Call("updateSource", << >>, 0, FALSE) >>

\* Variant of SyncDownSourceOk that reports the changed elements without
\* persisting them to the workspace.
SyncDownSourceOk_NotPersisted ==
  /\ applyLog' = ApplyCalls(result.fileProperties, obsoleteNames)
  /\ localRev' = localRev
  /\ inboundFiles' = FullNames(Retained(result.fileProperties))
                        \cup obsoleteNames
  /\ removed' = [removed EXCEPT ![pkgIdx] = obsoleteNames]
  /\ commits' = [commits EXCEPT ![pkgIdx] = @ + 1]
  /\ applied' = [applied EXCEPT ![pkgIdx] = TRUE]
  /\ pending' = pending
  /\ pc' = "updateSourceTracking"

\* _syncDownSource runs to completion (lines 180-218).
SyncDownSourceOk ==
  /\ applyLog' = ApplyCalls(result.fileProperties, obsoleteNames)
  /\ LET fps == Retained(result.fileProperties)
     IN  /\ localRev' = WrittenWorkspace(fps, obsoleteNames)
         /\ inboundFiles' = FullNames(fps) \cup obsoleteNames
  /\ removed' = [removed EXCEPT ![pkgIdx] = obsoleteNames]
  /\ commits' = [commits EXCEPT ![pkgIdx] = @ + 1]
  /\ applied' = [applied EXCEPT ![pkgIdx] = TRUE]
  /\ pending' = pending
  /\ pc' = "updateSourceTracking"

\* Variant of SyncDownSourceFail in which the error leaves the package step
\* without the finally block running.
SyncDownSourceFail_NoFinally ==
  /\ \E k \in 1..Len(ApplyCalls(result.fileProperties, obsoleteNames)) :
       applyLog' = SubSeq(ApplyCalls(result.fileProperties, obsoleteNames), 1, k)
  /\ pending' = Thrown(MkError("IOError", "applyFailure", {}))
  /\ pc' = "settle"
  /\ UNCHANGED << localRev, inboundFiles, removed, commits, applied >>

\* An I/O failure in _syncDownSource: one of its calls throws, the error
\* propagates out of _postRetrieve and nothing is persisted.
SyncDownSourceFail ==
  /\ \E k \in 1..Len(ApplyCalls(result.fileProperties, obsoleteNames)) :
       applyLog' = SubSeq(ApplyCalls(result.fileProperties, obsoleteNames), 1, k)
  /\ pending' = Thrown(MkError("IOError", "applyFailure", {}))
  /\ pc' = "cleanupOutputDir"
  /\ UNCHANGED << localRev, inboundFiles, removed, commits, applied >>

_syncDownSource ==
  /\ pc = "syncDownSource"
  /\ \/ SyncDownSourceOk
     \/ SyncDownSourceFail
  /\ UNCHANGED << hostSep, pullNo, pathVars, returned, failed,
                  options, start, remoteRev, remoteGone, remoteChanged, checkpoint,
                  seenRev, obsoleteNames, packages, pkgIdx, activePackage,
                  tmpDir, rmCalls, manifest, result, gateway, didSucceed,
                  tracked, results, pullError, statusCalls, statusReply,
                  statusError, rebuildCalls >>

\* The checkpoint after the tracking update of one package: the members of
\* the inbound files are recorded at the revision the diff observed, the
\* removed ones are dropped.
TrackedCheckpoint(inbound, obsolete) ==
  [ m \in Members |->
      IF m \notin inbound THEN checkpoint[m]
      ELSE IF m \in obsolete THEN 0
      ELSE seenRev[m] ]

\* Lines 172-177: getSourceMembersFromResult, updateSourceTracking, then
\* _processResults.
updateSourceTracking ==
  /\ pc = "updateSourceTracking"
  /\ checkpoint' = TrackedCheckpoint(inboundFiles, obsoleteNames)
  /\ tracked' = [tracked EXCEPT ![pkgIdx] = TRUE]
  /\ pending' = _processResults(result, inboundFiles)
  /\ pc' = "cleanupOutputDir"
  /\ UNCHANGED << hostSep, pullNo, pathVars, returned, failed, applyLog,
                  options, start, remoteRev, remoteGone, remoteChanged, seenRev,
                  localRev, obsoleteNames, packages, pkgIdx, activePackage,
                  tmpDir, rmCalls, manifest, result, gateway, didSucceed,
                  applied, removed, commits, inboundFiles, results, pullError,
                  statusCalls, statusReply, statusError, rebuildCalls >>

\* ------------------------------------------------- finally and the results

\* finally: SourceUtil.cleanupOutputDir(opts.retrievetargetdir) (lines 112-115).
cleanupOutputDir ==
  /\ pc = "cleanupOutputDir"
  /\ tmpDir' = [tmpDir EXCEPT ![pkgIdx] = "removed"]
  /\ rmCalls' = [rmCalls EXCEPT ![pkgIdx] = @ + 1]
  /\ pc' = "settle"
  /\ UNCHANGED << hostSep, pullNo, pathVars, returned, failed, applyLog,
                  options, start, remoteRev, remoteGone, remoteChanged, checkpoint,
                  seenRev, localRev, obsoleteNames, packages, pkgIdx,
                  activePackage, manifest, result, gateway, didSucceed,
                  applied, tracked, removed, commits, inboundFiles, pending,
                  results, pullError, statusCalls, statusReply, statusError,
                  rebuildCalls >>

\* The iterator's promise settles: a value is collected by mapSeries, an
\* error rejects mapSeries and with it doPull (lines 78, 116).
SettleReturn ==
  /\ pending.kind # "throw"
  /\ results' = Append(results, pending)
  /\ pullError' = pullError
  /\ pc' = "mapSeries"

\* Variant of SettleThrow that collects the error and goes on with the next
\* package.
SettleThrow_Collects ==
  /\ pending.kind = "throw"
  /\ results' = Append(results, pending)
  /\ pullError' = pullError
  /\ pc' = "mapSeries"

SettleThrow ==
  /\ pending.kind = "throw"
  /\ pullError' = pending.error
  /\ results' = results
  /\ pc' = "error"

settle ==
  /\ pc = "settle"
  /\ \/ SettleReturn
     \/ SettleThrow
  /\ pending' = NoOutcome
  /\ result' = Undefined
  /\ manifest' = EmptyManifest
  /\ didSucceed' = FALSE
  /\ inboundFiles' = {}
  /\ applyLog' = << >>
  /\ UNCHANGED << hostSep, pullNo, pathVars, returned, failed,
                  options, start, remoteRev, remoteGone, remoteChanged, checkpoint,
                  seenRev, localRev, obsoleteNames, packages, pkgIdx,
                  activePackage, tmpDir, rmCalls, gateway, applied, tracked,
                  removed, commits, statusCalls, statusReply, statusError,
                  rebuildCalls >>

\* The checkpoint rebuilt from the remote enumeration.
QueriedCheckpoint ==
  [ m \in Members |-> IF m \in remoteGone THEN 0 ELSE remoteRev[m] ]

\* maxRevision.setMaxRevisionCounterFromQuery() (line 118), then return.
setMaxRevisionCounterFromQuery ==
  /\ pc = "setMaxRevisionCounterFromQuery"
  /\ checkpoint' = QueriedCheckpoint
  /\ rebuildCalls' = rebuildCalls + 1
  /\ returned' = [ resolved |-> TRUE, results |-> results ]
  /\ pc' = "done"
  /\ UNCHANGED << hostSep, pullNo, pathVars, failed, applyLog,
                  options, start, remoteRev, remoteGone, remoteChanged, seenRev,
                  localRev, obsoleteNames, packages, pkgIdx, activePackage,
                  tmpDir, rmCalls, manifest, result, gateway, didSucceed,
                  applied, tracked, removed, commits, inboundFiles, pending,
                  results, pullError, statusCalls, statusReply, statusError >>

\* -------------------------------------------------------- remote repository

\* Between the diff and the end of the pull somebody changes the remote
\* repository: a member gets a new revision, or is deleted.
RemoteRevise(m) ==
  /\ m \notin remoteGone
  /\ remoteRev' = [remoteRev EXCEPT ![m] = @ + 1]
  /\ remoteGone' = remoteGone

RemoteDelete(m) ==
  /\ m \notin remoteGone
  /\ remoteRev[m] > 0
  /\ remoteGone' = remoteGone \cup { m }
  /\ remoteRev' = remoteRev

RemoteChange ==
  /\ pc \notin { "idle", "checkForConflicts", "getRevisionsAsPackage",
                 "done", "error" }
  /\ ~remoteChanged
  /\ remoteChanged' = TRUE
  /\ \E m \in Members : RemoteRevise(m) \/ RemoteDelete(m)
  /\ UNCHANGED << hostSep, pullNo, pathVars, returned, failed, applyLog,
                  pc, options, start, checkpoint, seenRev, localRev, obsoleteNames,
                  packages, pkgIdx, activePackage, tmpDir, rmCalls, manifest,
                  result, gateway, didSucceed, applied, tracked, removed,
                  commits, inboundFiles, pending, results, pullError,
                  statusCalls, statusReply, statusError, rebuildCalls >>

\* The steps of doPull.
PullStep ==
  \/ doPull
  \/ _checkForConflicts
  \/ getRevisionsAsPackage
  \/ mapSeriesNext
  \/ createOutputDir
  \/ createPackageManifest
  \/ retrieve
  \/ postRetrieve
  \/ _syncDownSource
  \/ updateSourceTracking
  \/ cleanupOutputDir
  \/ settle
  \/ setMaxRevisionCounterFromQuery

Next ==
  \/ PullStep
  \/ RemoteChange

Spec == Init /\ [][Next]_vars

\* ------------------------------------------------------------------ claims

\* No package step has started and nothing was touched: no temp directory,
\* no gateway call, no workspace write or removal, no checkpoint write.
NothingTouched ==
  /\ pkgIdx = 0
  /\ \A p \in PkgNames :
       /\ tmpDir[p] = "none"
       /\ gateway[p] = "none"
       /\ ~applied[p]
       /\ removed[p] = {}
       /\ commits[p] = 0
       /\ ~tracked[p]
  /\ rebuildCalls = 0
  /\ localRev = start.localRev
  /\ checkpoint = start.checkpoint

\* C1: when doPull runs without force-overwrite and the status check
\* returns at least one conflict, the pull ends in an error named
\* SourceConflict that carries exactly the returned conflicts, and in that
\* run no temp directory is created, no gateway call is made, no workspace
\* element is written or removed and the checkpoint is not modified.
C1_ConflictAbortsWithoutSideEffects ==
  (statusCalls > 0 /\ statusReply # {}) =>
    /\ pc = "error"
    /\ pullError.kind = "Error"
    /\ pullError.name = "SourceConflict"
    /\ pullError.conflicts = statusReply
    /\ NothingTouched

\* C1 witness: a pull rejected with SourceConflict for several conflicts.
C1_Witness ==
  /\ pc = "error"
  /\ ~options.forceoverwrite
  /\ pullError.name = "SourceConflict"
  /\ Cardinality(pullError.conflicts) > 1

\* C9: with force-overwrite set the status service is never invoked and
\* the pull never ends in a SourceConflict error.
C9_ForceOverwriteSkipsConflictCheck ==
  options.forceoverwrite =>
    /\ statusCalls = 0
    /\ pullError.name # "SourceConflict"

\* C9 witness: a forced pull ran to its end and wrote the workspace while
\* remote changes were pending.
C9_Witness ==
  /\ options.forceoverwrite
  /\ pc = "done"
  /\ \E p \in PkgNames : packages[p] # {} /\ applied[p]

\* C10: when the status query fails with INVALID_TYPE the pull aborts with
\* an error whose name is UnsupportedEnvironment and differs from the name
\* of the error of every other status-query failure, and no package is
\* processed.
C10_UnsupportedEnvironmentIsDistinct ==
  (pc = "error" /\ statusError = "INVALID_TYPE") =>
    /\ pullError.kind = "Error"
    /\ pullError.name = "UnsupportedEnvironment"
    /\ \A code \in ErrorCodes \ { "INVALID_TYPE" } :
         StatusQueryThrown(code, "statusFailed").name # pullError.name
    /\ NothingTouched

\* The steps of a package at which _postRetrieve has evaluated
\* _didRetrieveSucceed on the result of the package.
AfterPostRetrieve ==
  pc \in { "syncDownSource", "updateSourceTracking", "cleanupOutputDir",
           "settle" }

\* C7 as stated: _didRetrieveSucceed(result) is true iff success is true,
\* status is "Succeeded", messages is absent or empty and fileProperties is
\* a list, for every result, the absent one included.
C7_SucceededIffMessagesAbsentOrEmpty ==
  AfterPostRetrieve =>
    (didSucceed <=> /\ ~result.nil
                    /\ result.success
                    /\ result.status = "Succeeded"
                    /\ result.messages \in { "absent", "empty" }
                    /\ result.fpKind = "list")

\* C7 amended: _didRetrieveSucceed(result) is true iff the result is
\* present, success is true, status is "Succeeded", messages is absent and
\* fileProperties is a list; an empty messages list makes it false.
C7_SucceededIffMessagesAbsent ==
  AfterPostRetrieve =>
    (didSucceed <=> /\ ~result.nil
                    /\ result.success
                    /\ result.status = "Succeeded"
                    /\ result.messages = "absent"
                    /\ result.fpKind = "list")

\* C7 witness: a gateway result that differs from a succeeded one only by
\* an empty messages list was judged not succeeded.
C7_Witness ==
  /\ pc = "cleanupOutputDir"
  /\ gateway[pkgIdx] = "resolved"
  /\ result.success /\ result.status = "Succeeded"
  /\ result.fpKind = "list" /\ result.messages = "empty"
  /\ ~didSucceed
  /\ pending.kind = "throw"

\* The gateway call of the current package failed: it rejected, or it
\* resolved with a result that is not a succeeded one.
GatewayFailed ==
  \/ gateway[pkgIdx] \in { "rejected", "rejectedNoResult" }
  \/ gateway[pkgIdx] = "resolved" /\ ~_didRetrieveSucceed(result)

\* C6: whenever the gateway call of a package fails (a result that is not
\* succeeded, or a rejection with or without a result), the outcome of the
\* package is an error named RetrieveFailed, and neither the apply nor the
\* tracking update ran for the package.
C6_GatewayFailureIsRetrieveFailed ==
  (pc = "settle" /\ GatewayFailed) =>
    /\ pending.kind = "throw"
    /\ pending.error.name = "RetrieveFailed"
    /\ ~applied[pkgIdx]
    /\ ~tracked[pkgIdx]

\* A package with no member to retrieve while there are obsolete names.
EmptyWithObsolete(p) == packages[p] = {} /\ obsoleteNames # {}

\* C8: a package with no member to retrieve, when there are obsolete names,
\* makes no gateway call and gets the synthesized succeeded result with
\* empty fileProperties; its apply, once run, has removed the workspace
\* element of every obsolete name and committed the aggregate once, and the
\* package returns its inbound files.
C8_EmptyPackageStillRemovesObsolete ==
  /\ \A p \in 1..pkgIdx : EmptyWithObsolete(p) => gateway[p] = "none"
  /\ (pkgIdx >= 1 /\ EmptyWithObsolete(pkgIdx)) =>
       /\ (pc = "postRetrieve" \/ AfterPostRetrieve) =>
            /\ result = SynthesizedResult
            /\ result.fileProperties = << >>
       /\ AfterPostRetrieve => didSucceed
       /\ pc = "updateSourceTracking" => applied[pkgIdx]
       /\ (pc = "settle" /\ pending.kind # "throw") =>
            /\ applied[pkgIdx]
            /\ pending.kind = "inboundFiles"
            /\ obsoleteNames \subseteq pending.inboundFiles
  /\ \A p \in 1..pkgIdx : (EmptyWithObsolete(p) /\ applied[p]) =>
       /\ removed[p] = obsoleteNames
       /\ commits[p] = 1
       /\ \A m \in obsoleteNames : localRev[m] = 0

\* C8 witness: an empty package settled after its apply removed an obsolete
\* name that was in the workspace when the pull started.
C8_Witness ==
  /\ pc = "settle"
  /\ EmptyWithObsolete(pkgIdx)
  /\ gateway[pkgIdx] = "none"
  /\ applied[pkgIdx]
  /\ pending.kind = "inboundFiles"
  /\ \E m \in obsoleteNames : start.localRev[m] > 0 /\ localRev[m] = 0

\* Package p has entered its step (its temp directory was acquired).
Processed(p) == tmpDir[p] # "none"

\* The outcome of package p was delivered: collected by mapSeries, or
\* thrown out of doPull.
Delivered(p) == p <= Len(results) \/ (pc = "error" /\ pkgIdx = p)

\* C3: for every package step and each of its exit paths (success, gateway
\* failure, apply failure) the temp directory of the package is removed
\* exactly once, and it is removed before the outcome of the package is
\* delivered.
C3_TempDirRemovedOnceBeforeOutcome ==
  \A p \in PkgNames :
    /\ rmCalls[p] <= 1
    /\ (tmpDir[p] = "removed") <=> (rmCalls[p] = 1)
    /\ (pc = "settle" /\ pkgIdx = p) => tmpDir[p] = "removed"
    /\ Delivered(p) => tmpDir[p] = "removed"

\* C3 witness: a first package returned its inbound files, the apply of
\* the second one failed, and both temp directories were removed once.
C3_Witness ==
  /\ pc = "error"
  /\ pkgIdx > 1
  /\ pullError.name = "IOError"
  /\ results[1].kind = "inboundFiles"
  /\ \A p \in 1..pkgIdx : rmCalls[p] = 1 /\ tmpDir[p] = "removed"

ConflictCheckPassed ==
  /\ pc \notin { "idle", "checkForConflicts" }
  /\ options.forceoverwrite \/ (statusReply = {} /\ statusError = "none")

WrittenRev(m) == IF localRev[m] = 0 THEN start.localRev[m] ELSE localRev[m]

AppliedThenFailed ==
  /\ NumPkgs >= 2
  /\ gateway[1] = "resolved" /\ applied[1] /\ tracked[1]
  /\ 2 \in failed

\* doPull has settled: it resolved or it rejected.
PullSettled == pc \in { "done", "error" }

MaxPulls == 2

\* doPull is called again on the same instance after a pull that resolved:
\* the locals of doPull start afresh, the fields of the instance (lines
\* 33-41, this.obsoleteNames among them), the workspace, the checkpoint and
\* the remote repository are what the first pull left.
doPullAgain ==
  /\ pc = "done"
  /\ pullNo < MaxPulls
  /\ pullNo' = pullNo + 1
  /\ options' \in Options
  /\ start' = [ checkpoint |-> checkpoint, localRev |-> localRev ]
  /\ pc' = "checkForConflicts"
  /\ packages' = [p \in PkgNames |-> {}]
  /\ pkgIdx' = 0
  /\ tmpDir' = [p \in PkgNames |-> "none"]
  /\ rmCalls' = [p \in PkgNames |-> 0]
  /\ gateway' = [p \in PkgNames |-> "none"]
  /\ applied' = [p \in PkgNames |-> FALSE]
  /\ tracked' = [p \in PkgNames |-> FALSE]
  /\ removed' = [p \in PkgNames |-> {}]
  /\ commits' = [p \in PkgNames |-> 0]
  /\ results' = << >>
  /\ returned' = NotReturned
  /\ failed' = {}
  /\ statusCalls' = 0
  /\ statusReply' = {}
  /\ statusError' = "none"
  /\ rebuildCalls' = 0
  /\ UNCHANGED << hostSep, pathVars, remoteRev, remoteGone, remoteChanged,
                  checkpoint, seenRev, localRev, obsoleteNames, activePackage,
                  manifest, result, didSucceed, inboundFiles, pending,
                  pullError, applyLog >>

\* The remote repository changes during the first pull only: nothing
\* changes it once the first pull has resolved.
RemoteChangeFirstPull ==
  /\ pullNo = 1
  /\ RemoteChange

NextTwice ==
  \/ PullStep
  \/ RemoteChangeFirstPull
  \/ doPullAgain

\* Two doPull calls in succession on one instance.
SpecTwice == Init /\ [][NextTwice]_vars

\* C12: in a second doPull that follows a resolved pull with no remote or
\* local change in between, no package has a member to retrieve, no gateway
\* call is made, and nothing is written to or removed from the workspace:
\* no obsolete name is handed to the workspace store and no aggregate is
\* committed.
C12_SecondPullIsNoOp ==
  pullNo > 1 =>
    /\ \A p \in PkgNames : packages[p] = {}
    /\ \A p \in PkgNames : gateway[p] = "none"
    /\ \A p \in PkgNames : removed[p] = {} /\ commits[p] = 0
    /\ localRev = start.localRev

\* ------------------------------------------------------- cleanup that fails

\* Variant of CleanupRejection in which SourceUtil.cleanupOutputDir rejects
\* with the error of the failed removal.
CleanupRejection_Rethrown == MkError("CleanupFailed", "cleanupFailure", {})

\* What the promise of SourceUtil.cleanupOutputDir rejects with when the
\* removal of the directory fails: nothing, the failure is logged and the
\* promise resolves.
CleanupRejection == NoError

\* try/finally with an awaited call in the finally block (lines 83-115): a
\* rejection of that call replaces the outcome of the try block, otherwise
\* the outcome of the try block stands.
Finally(outcome, rejection) ==
  IF rejection = NoError THEN outcome ELSE Thrown(rejection)

\* finally: SourceUtil.cleanupOutputDir(opts.retrievetargetdir) is called
\* and the removal of the directory fails (lines 112-115).
cleanupOutputDirFails ==
  /\ pc = "cleanupOutputDir"
  /\ rmCalls' = [rmCalls EXCEPT ![pkgIdx] = @ + 1]
  /\ pending' = Finally(pending, CleanupRejection)
  /\ pc' = "settle"
  /\ UNCHANGED << hostSep, pullNo, pathVars, returned, failed, applyLog,
                  options, start, remoteRev, remoteGone, remoteChanged,
                  checkpoint, seenRev, localRev, obsoleteNames, packages,
                  pkgIdx, activePackage, tmpDir, manifest, result, gateway,
                  didSucceed, applied, tracked, removed, commits,
                  inboundFiles, results, pullError, statusCalls, statusReply,
                  statusError, rebuildCalls >>

NextCleanupFault ==
  \/ PullStep
  \/ cleanupOutputDirFails

\* One doPull in which the removal of a temp directory may fail.
SpecCleanupFault == Init /\ [][NextCleanupFault]_vars

\* The outcome the try block of the current package step produced (lines
\* 83-111): the error of a failed apply, else what _processResults gives.
TryOutcome ==
  IF didSucceed /\ ~applied[pkgIdx]
    THEN Thrown(MkError("IOError", "applyFailure", {}))
    ELSE _processResults(result, inboundFiles)

\* The cleanup of package p was attempted and the directory is still there.
CleanupFailedFor(p) == rmCalls[p] > 0 /\ tmpDir[p] = "exists"

ManifestBuilt ==
  pc \in { "retrieve", "postRetrieve", "syncDownSource",
           "updateSourceTracking", "cleanupOutputDir", "settle" }

\* The manifest is the caller's pre-built file, nothing serialized.
IsPackageXml(m) ==
  /\ ~m.empty
  /\ m.file = "packageXml"
  /\ m.members = options.packageXml.members

\* The manifest was serialized from the members of the package.
IsCreatedFrom(m, pkg) ==
  /\ ~m.empty
  /\ m.file = "created"
  /\ m.members = pkg

\* C14 as stated: whenever options.packageXml is supplied the manifest is
\* that file; otherwise an empty package yields the empty sentinel and a
\* non-empty one a manifest created from its members.
C14_PackageXmlAlwaysWins ==
  ManifestBuilt =>
    IF ~options.packageXml.nil
      THEN IsPackageXml(manifest)
      ELSE IF packages[pkgIdx] = {}
             THEN manifest = EmptyManifest
             ELSE IsCreatedFrom(manifest, packages[pkgIdx])

\* C14 amended: an empty package yields the empty sentinel whether or not
\* options.packageXml is supplied; for a non-empty package the manifest is
\* the supplied file only when options.packageXml is supplied and
\* options.debug is set, and is created from the members of the package
\* otherwise.
C14_PackageXmlOnlyInDebug ==
  ManifestBuilt =>
    IF packages[pkgIdx] = {}
      THEN manifest = EmptyManifest
      ELSE IF ~options.packageXml.nil /\ options.debug
             THEN IsPackageXml(manifest)
             ELSE IsCreatedFrom(manifest, packages[pkgIdx])

C14_Witness ==
  /\ pc = "retrieve"
  /\ ~options.packageXml.nil /\ options.debug
  /\ packages[pkgIdx] # {} /\ packages[pkgIdx] # options.packageXml.members
  /\ IsPackageXml(manifest)

\* The current package step is about to settle, its manifest was empty and
\* there is no obsolete name.
EmptyWithoutObsolete ==
  /\ pc = "settle"
  /\ packages[pkgIdx] = {} /\ manifest.empty
  /\ obsoleteNames = {}

\* C15 as stated: a package whose manifest is empty, when there are no
\* obsolete names, skips the retrieval and gets the synthesized succeeded
\* result with empty fileProperties; its outcome is an explicit success
\* with no inbound files.
C15_EmptyPackageGetsSynthesizedSuccess ==
  EmptyWithoutObsolete =>
    /\ gateway[pkgIdx] = "none"
    /\ result = SynthesizedResult
    /\ pending = Returned("inboundFiles", {})

\* C15 amended: such a package skips the retrieval and its result stays
\* undefined: nothing is synthesized, the apply and the tracking update do
\* not run, and the outcome of the package is undefined.
C15_EmptyPackageOutcomeIsUndefined ==
  EmptyWithoutObsolete =>
    /\ gateway[pkgIdx] = "none"
    /\ result = Undefined
    /\ ~didSucceed
    /\ ~applied[pkgIdx] /\ ~tracked[pkgIdx] /\ commits[pkgIdx] = 0
    /\ pending = Returned("undefined", {})

C15_Witness ==
  /\ EmptyWithoutObsolete
  /\ tmpDir[pkgIdx] = "removed"
  /\ pending.kind = "undefined"

\* A step of the current package is in progress: temp-dir acquire, manifest
\* build, retrieve, apply, tracking update or cleanup.
InPackageStep ==
  pc \in { "createOutputDir", "createPackageManifest", "retrieve",
           "postRetrieve", "syncDownSource", "updateSourceTracking",
           "cleanupOutputDir", "settle" }

\* Package q has not been started: no temp directory, no gateway call, no
\* apply, no cleanup.
NotStarted(q) ==
  /\ tmpDir[q] = "none" /\ rmCalls[q] = 0
  /\ gateway[q] = "none"
  /\ ~applied[q] /\ ~tracked[q] /\ commits[q] = 0

\* C16: packages are processed one at a time: while a step of a package is
\* in progress, the cleanup of every package before it has finished, no
\* package after it has been started, and the active package of the shared
\* package info cache is the package being processed; at no time do two
\* temp directories exist.
C16_OnePackageAtATime ==
  /\ InPackageStep =>
       /\ activePackage = pkgIdx
       /\ \A q \in PkgNames :
            /\ q < pkgIdx => (tmpDir[q] = "removed" /\ rmCalls[q] = 1)
            /\ q > pkgIdx => NotStarted(q)
  /\ Cardinality({ q \in PkgNames : tmpDir[q] = "exists" }) <= 1

C16_Witness ==
  /\ pc = "syncDownSource"
  /\ pkgIdx = NumPkgs /\ NumPkgs > 1
  /\ activePackage = pkgIdx
  /\ applied[1] /\ tmpDir[1] = "removed"
  /\ tmpDir[pkgIdx] = "exists"

\* ------------------------------------------------- _syncDownSource, alone

\* Bound of the model: length of result.fileProperties.
MaxFileProps == 3

\* The file properties a retrieve result can list: the manifest wrapper and
\* one entry per member, in any order.
FilePropertyValues ==
  { PackageFileProperty } \cup { FileProperty(m, 1) : m \in Members }

FilePropertyLists ==
  UNION { [1..n -> FilePropertyValues] : n \in 0..MaxFileProps }

\* _postRetrieve is about to call _syncDownSource (line 160) for the first
\* package of a pull, with a succeeded result listing any file properties
\* and with any obsolete names, on either kind of host.
InitApply ==
  /\ pc = "syncDownSource"
  /\ options = [ forceoverwrite |-> FALSE, debug |-> FALSE,
                 packageXml |-> NoPackageXml ]
  /\ checkpoint = [m \in Members |-> 0]
  /\ localRev = [m \in Members |-> 0]
  /\ remoteRev = [m \in Members |-> 1]
  /\ remoteGone = {}
  /\ remoteChanged = FALSE
  /\ seenRev = [m \in Members |-> 1]
  /\ obsoleteNames \in SUBSET Members
  /\ packages = [p \in PkgNames |-> { m \in Members : PkgOf(m) = p }]
  /\ pkgIdx = 1
  /\ activePackage = 1
  /\ tmpDir = [p \in PkgNames |-> IF p = 1 THEN "exists" ELSE "none"]
  /\ rmCalls = [p \in PkgNames |-> 0]
  /\ manifest = [ empty |-> FALSE, file |-> "created", members |-> packages[1] ]
  /\ \E fps \in FilePropertyLists :
       result = [ SynthesizedResult EXCEPT !.fileProperties = fps ]
  /\ gateway = [p \in PkgNames |-> IF p = 1 THEN "resolved" ELSE "none"]
  /\ didSucceed = TRUE
  /\ applied = [p \in PkgNames |-> FALSE]
  /\ tracked = [p \in PkgNames |-> FALSE]
  /\ removed = [p \in PkgNames |-> {}]
  /\ commits = [p \in PkgNames |-> 0]
  /\ inboundFiles = {}
  /\ pending = NoOutcome
  /\ results = << >>
  /\ pullError = NoError
  /\ statusCalls = 1
  /\ statusReply = {}
  /\ statusError = "none"
  /\ rebuildCalls = 0
  /\ returned = NotReturned
  /\ failed = {}
  /\ applyLog = << >>
  /\ hostSep \in HostSeps
  /\ pullNo = 1
  /\ start = [ checkpoint |-> checkpoint, localRev |-> localRev ]
  /\ PathIdle

\* The apply of one package, up to the point its step settles.
NextApply ==
  \/ _syncDownSource
  \/ updateSourceTracking
  \/ cleanupOutputDir
  \/ settle

SpecApply == InitApply /\ [][NextApply]_vars

\* The calls of the current apply with the given name, in order.
CallsOf(op) == SelectSeq(applyLog, LAMBDA c : c.op = op)

\* The positions in the call log of the calls with the given name.
PositionsOf(op) == { i \in 1..Len(applyLog) : applyLog[i].op = op }

\* The apply of the current package ran to completion and its step has not
\* settled.
ApplyCompleted ==
  /\ pc \in { "updateSourceTracking", "cleanupOutputDir", "settle" }
  /\ applied[pkgIdx]

\* C17: in an apply, getDefinitionProperties is called once, first, over
\* the whole fileProperties list of the result; every processing of a file
\* property comes before every removal of an obsolete name; updateSource is
\* called at most once, after every other call, with false as its
\* check-for-duplicates argument; and an apply that ran to completion has
\* processed every retained file property, removed every obsolete name and
\* called updateSource exactly once.
C17_ApplyOrder ==
  applyLog # << >> =>
    /\ PositionsOf("getDefinitionProperties") = { 1 }
    /\ applyLog[1].fps = result.fileProperties
    /\ \A i \in PositionsOf("handleObsoleteSource") :
         \A j \in PositionsOf("processMdapiFileProperty") : j < i
    /\ PositionsOf("updateSource") \subseteq { Len(applyLog) }
    /\ \A i \in PositionsOf("updateSource") : ~applyLog[i].checkForDuplicates
    /\ ApplyCompleted =>
         /\ Len(CallsOf("processMdapiFileProperty"))
              = Len(Retained(result.fileProperties))
         /\ { applyLog[i].name : i \in PositionsOf("handleObsoleteSource") }
              = obsoleteNames
         /\ Len(CallsOf("updateSource")) = 1
         /\ commits[pkgIdx] = 1

C17_Witness ==
  /\ ApplyCompleted
  /\ Len(result.fileProperties) = MaxFileProps
  /\ Len(CallsOf("processMdapiFileProperty")) >= 2
  /\ Len(CallsOf("handleObsoleteSource")) >= 1
  /\ applyLog[Len(applyLog)].op = "updateSource"

\* The file property a processMdapiFileProperty call was given.
Handed(c) == c.fps[1]

\* C19: in an apply, no file property of type 'Package' is handed to
\* processMdapiFileProperty; the file properties handed to it are the other
\* file properties of the result, each once and in the order of the result
\* (all of them once the apply ran to completion); and the fullName and the
\* fileName of each are written with the path separator of the host.
C19_RetainedHandedOnceInOrder ==
  LET calls == CallsOf("processMdapiFileProperty")
      kept == Retained(result.fileProperties)
  IN  /\ \A i \in 1..Len(calls) : Handed(calls[i]).type # "Package"
      /\ Len(calls) <= Len(kept)
      /\ ApplyCompleted => Len(calls) = Len(kept)
      /\ \A i \in 1..Len(calls) :
           /\ Handed(calls[i]).type = kept[i].type
           /\ Handed(calls[i]).fullName = kept[i].fullName
           /\ Handed(calls[i]).rev = kept[i].rev
           /\ Handed(calls[i]).fullNameSep = hostSep
           /\ Handed(calls[i]).fileNameSep = hostSep

C19_Witness ==
  /\ ApplyCompleted
  /\ hostSep = "\\"
  /\ Len(result.fileProperties) = MaxFileProps
  /\ result.fileProperties[2].type = "Package"
  /\ result.fileProperties[1].fullName > result.fileProperties[3].fullName
  /\ Len(CallsOf("processMdapiFileProperty")) = 2

\* The obsolete names attributed to package p by the grouping policy.
ObsoleteOf(p) == { m \in obsoleteNames : PkgOf(m) = p }

\* The packages whose apply handed obsolete name m to handleObsoleteSource.
RemovedBy(m) == { p \in PkgNames : m \in removed[p] }

\* C18: the apply of a package removes only the obsolete names attributed
\* to that package, so every obsolete name is removed in the apply of at
\* most one package, and of exactly one once the pull has resolved.
C18_ObsoleteRemovedByOwnPackageOnly ==
  /\ \A p \in PkgNames : removed[p] \subseteq ObsoleteOf(p)
  /\ \A m \in obsoleteNames : Cardinality(RemovedBy(m)) <= 1
  /\ pc = "done" => \A m \in obsoleteNames : Cardinality(RemovedBy(m)) = 1

\* ------------------------------------------- local.getPath (projectDir.ts)

\* Bound of the model: depth of process.cwd() below the root.
MaxDepth == 2

\* The state of the pull.
pullVars ==
  << pc, options, start, remoteRev, remoteGone, remoteChanged, checkpoint,
     seenRev, localRev, obsoleteNames, packages, pkgIdx, activePackage,
     tmpDir, rmCalls, manifest, result, gateway, didSucceed, applied,
     tracked, removed, commits, inboundFiles, pending, results, pullError,
     statusCalls, statusReply, statusError, rebuildCalls, returned, failed,
     applyLog, hostSep, pullNo >>

\* The absolute POSIX path of the directory d levels below the root, as the
\* sequence of its characters: "/d/d" for d = 2.
RECURSIVE Below(_)
Below(d) == IF d = 0 THEN << >> ELSE Below(d - 1) \o << "/", "d" >>

Root == << "/" >>

\* The values process.cwd() can have.
Cwds == { Root } \cup { Below(d) : d \in 1..MaxDepth }

\* A directory, its ancestors and the root.
AncestorsOf(dir) ==
  { dir, Root } \cup
    { SubSeq(dir, 1, i - 1) : i \in { j \in 2..Len(dir) : dir[j] = "/" } }

Dirs == UNION { AncestorsOf(c) : c \in Cwds }

\* config.getWorkspaceConfigFilename() and
\* config.getOldAndBustedWorkspaceConfigFilename().
WorkspaceConfig == "workspaceConfig"
OldWorkspaceConfig == "oldWorkspaceConfig"
ConfigFiles == { WorkspaceConfig, OldWorkspaceConfig }

\* fs.statSync(path.join(workingDir, file)): it returns, or throws an error
\* whose code is ENOENT or another one.
StatOutcomes == { "ok", "ENOENT", "EACCES" }

\* String.prototype.lastIndexOf for one character, 0-based, -1 when absent.
LastIndexOf(s, c) ==
  LET at == { i \in 1..Len(s) : s[i] = c }
  IN  IF at = {} THEN -1
      ELSE (CHOOSE i \in at : \A j \in at : j <= i) - 1

\* String.prototype.substring(0, end).
Substring0(s, end) == SubSeq(s, 1, end)

\* A process in some working directory over some file system; the host is
\* a POSIX one.
InitPath ==
  /\ PullInit
  /\ checkpoint = [m \in Members |-> 0]
  /\ remoteRev = [m \in Members |-> 0]
  /\ gpPc = "idle"
  /\ gpCwd \in Cwds
  /\ gpFs \in [Dirs \X ConfigFiles -> StatOutcomes]
  /\ gpFile = "none"
  /\ gpDir = Null
  /\ gpFound = Null
  /\ gpError = NoError

\* local.getPath() is called (lines 28-58): the first traversal starts at
\* process.cwd() for the workspace config file.
getPath ==
  /\ gpPc = "idle"
  /\ gpPc' = "traverse"
  /\ gpFile' = WorkspaceConfig
  /\ gpDir' = gpCwd
  /\ gpFound' = Null
  /\ UNCHANGED << gpCwd, gpFs, gpError, pullVars >>

\* statSync returns (lines 41-42): foundProjectDir is set and the traversal
\* returns; the first traversal makes getPath return foundProjectDir (line
\* 70), the second one lets getPath rewrite the message of the caught error
\* and throw it (lines 62-67).
StatReturns ==
  /\ gpFs[<< gpDir, gpFile >>] = "ok"
  /\ gpFound' = gpDir
  /\ gpDir' = gpDir
  /\ IF gpPc = "traverse"
       THEN /\ gpPc' = "returned"
            /\ gpError' = gpError
       ELSE /\ gpPc' = "thrown"
            /\ gpError' = [gpError EXCEPT !.message = "OldSfdxWorkspaceJsonPresent"]
  /\ gpFile' = gpFile

\* statSync throws ENOENT and workingDir has a separator past its first
\* character (lines 44-47): traverseForFile calls itself on the parent.
StatMissingRecurse ==
  /\ gpFs[<< gpDir, gpFile >>] = "ENOENT"
  /\ LastIndexOf(gpDir, hostSep) > 0
  /\ gpDir' = Substring0(gpDir, LastIndexOf(gpDir, hostSep))
  /\ UNCHANGED << gpPc, gpFile, gpFound, gpError >>

\* statSync throws ENOENT and workingDir has no separator past its first
\* character (lines 48-52): InvalidProjectWorkspace is thrown. Thrown by the
\* first traversal it is caught by getPath, which starts the second
\* traversal for the old config file (lines 59-61); thrown by the second it
\* is ignored and getPath throws the first error (lines 65-67).
StatMissingThrow ==
  /\ gpFs[<< gpDir, gpFile >>] = "ENOENT"
  /\ LastIndexOf(gpDir, hostSep) <= 0
  /\ IF gpPc = "traverse"
       THEN /\ gpPc' = "traverseOld"
            /\ gpFile' = OldWorkspaceConfig
            /\ gpDir' = gpCwd
            /\ gpError' = MkError("InvalidProjectWorkspace",
                                  "InvalidProjectWorkspace", {})
       ELSE /\ gpPc' = "thrown"
            /\ UNCHANGED << gpFile, gpDir, gpError >>
  /\ gpFound' = gpFound

\* statSync throws an error whose code is not ENOENT (line 44, no else):
\* the error is dropped and the traversal returns with foundProjectDir as
\* it was.
StatOtherError ==
  /\ gpFs[<< gpDir, gpFile >>] \notin { "ok", "ENOENT" }
  /\ IF gpPc = "traverse"
       THEN /\ gpPc' = "returned"
            /\ gpError' = gpError
       ELSE /\ gpPc' = "thrown"
            /\ gpError' = [gpError EXCEPT !.message = "OldSfdxWorkspaceJsonPresent"]
  /\ UNCHANGED << gpFile, gpDir, gpFound >>

\* One call of traverseForFile (lines 39-55).
traverseForFile ==
  /\ gpPc \in { "traverse", "traverseOld" }
  /\ \/ StatReturns
     \/ StatMissingRecurse
     \/ StatMissingThrow
     \/ StatOtherError
  /\ UNCHANGED << gpCwd, gpFs, pullVars >>

NextPath ==
  \/ getPath
  \/ traverseForFile

\* One call of local.getPath.
SpecPath == InitPath /\ [][NextPath]_vars

\* Directory d holds the workspace config file.
HoldsConfig(d) == gpFs[<< d, WorkspaceConfig >>] = "ok"

\* C20: local.getPath returns a directory, never null: the working
\* directory or an ancestor of it, the root included, that holds the
\* workspace config file and is the nearest one that does; when it throws,
\* the error is named InvalidProjectWorkspace and no such directory holds
\* the file.
C20_NearestProjectDirOrInvalidWorkspace ==
  /\ gpPc = "returned" =>
       /\ gpFound # Null
       /\ gpFound \in AncestorsOf(gpCwd)
       /\ HoldsConfig(gpFound)
       /\ \A d \in AncestorsOf(gpCwd) : Len(d) > Len(gpFound) => ~HoldsConfig(d)
  /\ gpPc = "thrown" =>
       /\ gpError.name = "InvalidProjectWorkspace"
       /\ \A d \in AncestorsOf(gpCwd) : ~HoldsConfig(d)

====
